---- MODULE Spec2Model ----
(***************************************************************************)
(* GitAgent_Z: the command gate (tools/git.py run_git_command), the        *)
(* registered git tools and OllamaManager.process_request driving the      *)
(* ReAct AgentExecutor configured in core/llm.py.                          *)
(*                                                                         *)
(* Texts (process output, model output, observations, return values) are   *)
(* sequences of tokens; an f-string is the concatenation (\o) of its       *)
(* pieces.  Tool arguments and argv elements are single tokens.            *)
(***************************************************************************)
EXTENDS Integers, Sequences, FiniteSets, TLC

(* ---------------------------------------------------------------- bounds *)
MaxIter == 2        \* largest settings.max_iterations explored
MaxCmdLen == 2      \* longest command handed directly to the gate

(* ------------------------------------------------------------- constants *)
DefaultAllowed == {"status", "add", "commit", "push", "pull", "log", "diff", "stash"}

\* allowlists explored (settings.allowed_git_commands is configurable)
AllowLists == {DefaultAllowed, {"status"}, DefaultAllowed \ {"push", "diff"}}

WS == {" ", "\n"}

None == <<"<None>">>

VARIABLES
    settings,       \* GitAgentSettings: allowed_git_commands, require_confirmation, max_iterations
    inRepo,         \* whether `git rev-parse --show-toplevel` succeeds in the cwd
    editmsg,        \* content of .git/COMMIT_EDITMSG, or None when the file does not exist
    pc,             \* position of process_request: "idle", "running", "done"
    user_input,     \* the Task text
    iterations,     \* AgentExecutor's iteration counter
    observation,    \* last Observation appended to the scratchpad
    ret,            \* value returned by process_request
    raised,         \* exception class that escaped process_request ("none" if none)
    termKind,       \* how the Task ended
    modelCalls,     \* completions requested by the loop for this Task
    toolCalls,      \* registered actions executed for this Task
    onlyParseErrors,\* every cycle of this Task so far ended in a parse failure
    connFailed,     \* which model call of this Task failed to reach the backend
    ev,             \* what the last step did (spawns, confirmation, gate outcome)
    gate,           \* last direct call of run_git_command: command and outcome
    workers         \* the front end's worker threads, each processing one Task

vars == <<settings, inRepo, editmsg, pc, user_input, iterations, observation, ret,
          raised, termKind, modelCalls, toolCalls, onlyParseErrors,
          connFailed, ev, gate, workers>>

(* ------------------------------------------------------------------ text *)
RECURSIVE LStrip(_)
LStrip(t) == IF t # <<>> /\ Head(t) \in WS THEN LStrip(Tail(t)) ELSE t

RECURSIVE RStrip(_)
RStrip(t) == IF t # <<>> /\ t[Len(t)] \in WS THEN RStrip(SubSeq(t, 1, Len(t) - 1)) ELSE t

\* str.strip()
Strip(t) == RStrip(LStrip(t))

\* a single-token string as a text ("" is the empty text)
ToText(s) == IF s = "" THEN <<>> ELSE <<s>>

(* --------------------------------------------------------- subprocesses *)
\* what the spawned process does: exit with a code and output, hang past the
\* 30 s timeout, or fail to start (OSError)
Procs == {
    [kind |-> "exit", returncode |-> 0, stdout |-> <<"out", "\n">>, stderr |-> <<>>],
    [kind |-> "exit", returncode |-> 0, stdout |-> <<"\n">>, stderr |-> <<>>],
    [kind |-> "exit", returncode |-> 1, stdout |-> <<>>, stderr |-> <<"fatal", "\n">>],
    [kind |-> "timeout", returncode |-> 0, stdout |-> <<>>, stderr |-> <<>>],
    [kind |-> "oserror", returncode |-> 0, stdout |-> <<>>, stderr |-> <<>>] }

NoResult == [success |-> FALSE, stdout |-> <<>>, stderr |-> <<>>, returncode |-> 0]

\* GitCommandError(command, exit_code, stderr): str(e)
GitCommandError(command, exit_code, stderr) ==
    <<"Git command '">> \o command \o <<"' failed with exit code ", exit_code, ": ">> \o stderr

\* UnsafeOperationError message
UnsafeOperationError(git_action) == <<"Git command '", git_action, "' not allowed">>

run_git_command_noraise(command, proc) ==
    IF command = <<>>
    THEN [raised |-> "none", message |-> <<>>, exit_code |-> "-1", spawned |-> <<>>,
          result |-> NoResult]
    ELSE
    LET cmd == IF command[1] # "git" THEN <<"git">> \o command ELSE command
        git_action == IF Len(cmd) > 1 THEN cmd[2] ELSE ""
    IN  IF git_action \notin settings.allowed_git_commands
        THEN [raised |-> "none", message |-> <<>>, exit_code |-> "", spawned |-> <<>>,
              result |-> NoResult]
        ELSE [raised |-> "none", message |-> <<>>, exit_code |-> "",
              spawned |-> <<[argv |-> cmd, via |-> "gate"]>>,
              result |-> [success |-> proc.kind = "exit" /\ proc.returncode = 0,
                          stdout |-> Strip(proc.stdout),
                          stderr |-> Strip(proc.stderr),
                          returncode |-> IF proc.kind = "exit" THEN proc.returncode ELSE -1]]

run_git_command_nocheck(command, proc) ==
    IF command = <<>>
    THEN [raised |-> "IndexError", message |-> <<"list index out of range">>,
          exit_code |-> "", spawned |-> <<>>, result |-> NoResult]
    ELSE
    LET cmd == IF command[1] # "git" THEN <<"git">> \o command ELSE command
    IN  CASE proc.kind = "exit" ->
                 [raised |-> "none", message |-> <<>>, exit_code |-> "",
                  spawned |-> <<[argv |-> cmd, via |-> "gate"]>>,
                  result |-> [success |-> proc.returncode = 0,
                              stdout |-> Strip(proc.stdout),
                              stderr |-> Strip(proc.stderr),
                              returncode |-> proc.returncode]]
          [] proc.kind = "timeout" ->
                 [raised |-> "GitCommandError",
                  message |-> GitCommandError(cmd, "-1", <<"Command timed out">>),
                  exit_code |-> "-1",
                  spawned |-> <<[argv |-> cmd, via |-> "gate"]>>,
                  result |-> NoResult]
          [] OTHER ->
                 [raised |-> "GitCommandError",
                  message |-> GitCommandError(cmd, "-1", <<"OSError">>),
                  exit_code |-> "-1",
                  spawned |-> <<[argv |-> cmd, via |-> "gate"]>>,
                  result |-> NoResult]

\* run_git_command(command): the outcome returned, or the exception raised,
\* and the subprocesses it spawned
run_git_command(command, proc) ==
    IF command = <<>>
    THEN \* command[0] on an empty list
         [raised |-> "IndexError", message |-> <<"list index out of range">>,
          exit_code |-> "", spawned |-> <<>>, result |-> NoResult]
    ELSE
    LET cmd == IF command[1] # "git" THEN <<"git">> \o command ELSE command
        git_action == IF Len(cmd) > 1 THEN cmd[2] ELSE ""
    IN  IF git_action \notin settings.allowed_git_commands
        THEN [raised |-> "UnsafeOperationError",
              message |-> UnsafeOperationError(git_action),
              exit_code |-> "", spawned |-> <<>>, result |-> NoResult]
        ELSE CASE proc.kind = "exit" ->
                 [raised |-> "none", message |-> <<>>, exit_code |-> "",
                  spawned |-> <<[argv |-> cmd, via |-> "gate"]>>,
                  result |-> [success |-> proc.returncode = 0,
                              stdout |-> Strip(proc.stdout),
                              stderr |-> Strip(proc.stderr),
                              returncode |-> proc.returncode]]
               [] proc.kind = "timeout" ->
                 [raised |-> "GitCommandError",
                  message |-> GitCommandError(cmd, "-1", <<"Command timed out">>),
                  exit_code |-> "-1",
                  spawned |-> <<[argv |-> cmd, via |-> "gate"]>>,
                  result |-> NoResult]
               [] OTHER ->
                 [raised |-> "GitCommandError",
                  message |-> GitCommandError(cmd, "-1", <<"OSError">>),
                  exit_code |-> "-1",
                  spawned |-> <<[argv |-> cmd, via |-> "gate"]>>,
                  result |-> NoResult]


(* ------------------------------------------------------ tool environment *)
\* completions of the model backend requested by a tool (ollama.llm.invoke)
ToolCompletions == {
    [ok |-> TRUE, text |-> <<" ", "fix", "\n">>],
    [ok |-> TRUE, text |-> <<"feat">>],
    [ok |-> FALSE, text |-> <<"connection refused">>] }

NoCompletion == [ok |-> TRUE, text |-> <<"feat">>]
NoProc == [kind |-> "exit", returncode |-> 0, stdout |-> <<"out", "\n">>, stderr |-> <<>>]

\* what the outside world does during one tool invocation: the processes
\* spawned by the first and second gated command, the tool's own completion,
\* the answer to Confirm.ask, and whether open() on COMMIT_EDITMSG fails
Env(P1, P2, L, C, F) == [p1 : P1, p2 : P2, llm : L, confirm : C, fs : F]

\* what one tool invocation did
Res(obs, spawned, conf, llm, file) ==
    [obs |-> obs, spawned |-> spawned, conf |-> conf, llm |-> llm, file |-> file,
     threw |-> "none"]

OuterExcept_reraise(message, spawned, conf, llm) ==
    [obs |-> <<>>, spawned |-> spawned, conf |-> conf, llm |-> llm, file |-> editmsg,
     threw |-> "Exception"]

\* the outermost handler of every tool: an Exception becomes the returned text
OuterExcept(message, spawned, conf, llm) ==
    Res(<<"Error: ">> \o message, spawned, conf, llm, editmsg)

\* get_git_root(): spawns git rev-parse itself
RootSpawn == [argv |-> <<"git", "rev-parse", "--show-toplevel">>, via |-> "direct"]

get_git_root == [spawned |-> <<RootSpawn>>, found |-> inRepo]

is_git_repo == [spawned |-> get_git_root.spawned, found |-> get_git_root.found]

(* ----------------------------------------------------------------- tools *)
WriteFile_append(old, content) == (IF old = None THEN <<>> ELSE old) \o content

\* with open(commit_editmsg_path, 'w') as f: f.write(content): the content of
\* the file afterwards
WriteFile(old, content) == content

\* The value of a singleton set.  Tools bind the outcome of each call they
\* make once, as  Only({ body : g \in {call} }).
Only(S) == CHOOSE x \in S : TRUE

get_git_status(env) ==
    Only({ IF g.raised # "none"
           THEN OuterExcept(g.message, g.spawned, "notasked", "none")
           ELSE IF g.result.success
           THEN IF g.result.stdout # <<>>
                THEN Res(<<"Git status:\n">> \o g.result.stdout, g.spawned, "notasked",
                         "none", editmsg)
                ELSE Res(<<"Working directory is clean">>, g.spawned, "notasked", "none",
                         editmsg)
           ELSE Res(<<"Error getting git status: ">> \o g.result.stderr, g.spawned,
                    "notasked", "none", editmsg)
         : g \in {run_git_command(<<"git", "status", "--porcelain", "-b">>, env.p1)} })

generate_commit_message_truncates(env) ==
    Only({ IF ~root.found
           THEN Res(<<"Error: Not in a git repository">>, root.spawned, "notasked", "none",
                    editmsg)
           ELSE IF g1.raised # "none"
           THEN OuterExcept(g1.message, root.spawned \o g1.spawned, "notasked", "none")
           ELSE IF ~g1.result.success
           THEN Res(<<"Error getting staged changes: ">> \o g1.result.stderr,
                    root.spawned \o g1.spawned, "notasked", "none", editmsg)
           ELSE IF g1.result.stdout = <<>>
           THEN Res(<<"No staged changes found. Please stage your changes first with 'git add'.">>,
                    root.spawned \o g1.spawned, "notasked", "none", editmsg)
           ELSE IF g2.raised # "none"
           THEN OuterExcept(g2.message, root.spawned \o g1.spawned \o g2.spawned,
                            "notasked", "none")
           ELSE IF ~env.llm.ok
           THEN Res(<<"Error generating commit message: ">> \o env.llm.text,
                    root.spawned \o g1.spawned \o g2.spawned, "notasked", "failed", <<>>)
           ELSE IF env.fs # "ok"
           THEN Res(<<"Error generating commit message: ", "Permission denied">>,
                    root.spawned \o g1.spawned \o g2.spawned, "notasked", "ok", editmsg)
           ELSE Res(<<"Generated commit message and saved to .git/COMMIT_EDITMSG:\n\n">> \o msg,
                    root.spawned \o g1.spawned \o g2.spawned, "notasked", "ok",
                    WriteFile(editmsg, msg))
         : root \in {get_git_root},
           g1 \in {run_git_command(<<"git", "diff", "--cached">>, env.p1)},
           g2 \in {run_git_command(<<"git", "status", "--porcelain">>, env.p2)},
           msg \in {Strip(env.llm.text)} })

generate_commit_message(env) ==
    Only({ IF ~root.found
           THEN Res(<<"Error: Not in a git repository">>, root.spawned, "notasked", "none",
                    editmsg)
           ELSE IF g1.raised # "none"
           THEN OuterExcept(g1.message, root.spawned \o g1.spawned, "notasked", "none")
           ELSE IF ~g1.result.success
           THEN Res(<<"Error getting staged changes: ">> \o g1.result.stderr,
                    root.spawned \o g1.spawned, "notasked", "none", editmsg)
           ELSE IF g1.result.stdout = <<>>
           THEN Res(<<"No staged changes found. Please stage your changes first with 'git add'.">>,
                    root.spawned \o g1.spawned, "notasked", "none", editmsg)
           ELSE IF g2.raised # "none"
           THEN OuterExcept(g2.message, root.spawned \o g1.spawned \o g2.spawned,
                            "notasked", "none")
           ELSE IF ~env.llm.ok
           THEN Res(<<"Error generating commit message: ">> \o env.llm.text,
                    root.spawned \o g1.spawned \o g2.spawned, "notasked", "failed", editmsg)
           ELSE IF env.fs # "ok"
           THEN Res(<<"Error generating commit message: ", "Permission denied">>,
                    root.spawned \o g1.spawned \o g2.spawned, "notasked", "ok", editmsg)
           ELSE Res(<<"Generated commit message and saved to .git/COMMIT_EDITMSG:\n\n">> \o msg,
                    root.spawned \o g1.spawned \o g2.spawned, "notasked", "ok",
                    WriteFile(editmsg, msg))
         : root \in {get_git_root},
           g1 \in {run_git_command(<<"git", "diff", "--cached">>, env.p1)},
           g2 \in {run_git_command(<<"git", "status", "--porcelain">>, env.p2)},
           msg \in {Strip(env.llm.text)} })

read_commit_editmsg(env) ==
    Only({ Res(IF ~root.found THEN <<"Error: Not in a git repository">>
               ELSE IF editmsg = None
               THEN <<"No .git/COMMIT_EDITMSG file found. Start a commit to create one.">>
               ELSE IF env.fs # "ok"
               THEN <<"Error reading COMMIT_EDITMSG: ", "Permission denied">>
               ELSE IF Strip(editmsg) # <<>>
               THEN <<"Current commit message template:\n\n">> \o editmsg
               ELSE <<"The .git/COMMIT_EDITMSG file is empty.">>,
               root.spawned, "notasked", "none", editmsg)
         : root \in {get_git_root} })

improve_commit_message(env) ==
    Only({ IF ~root.found
           THEN Res(<<"Error: Not in a git repository">>, root.spawned, "notasked", "none",
                    editmsg)
           ELSE IF editmsg # None /\ env.fs # "ok"
           THEN OuterExcept(<<"Permission denied">>, root.spawned, "notasked", "none")
           ELSE IF g.raised # "none"
           THEN OuterExcept(g.message, root.spawned \o g.spawned, "notasked", "none")
           ELSE IF ~g.result.success \/ g.result.stdout = <<>>
           THEN Res(<<"No staged changes found to analyze.">>,
                    root.spawned \o g.spawned, "notasked", "none", editmsg)
           ELSE IF ~env.llm.ok
           THEN Res(<<"Error improving commit message: ">> \o env.llm.text,
                    root.spawned \o g.spawned, "notasked", "failed", editmsg)
           ELSE IF env.fs # "ok"
           THEN Res(<<"Error improving commit message: ", "Permission denied">>,
                    root.spawned \o g.spawned, "notasked", "ok", editmsg)
           ELSE Res(<<"Improved commit message:\n\n">> \o msg
                      \o <<"\n\nSaved to .git/COMMIT_EDITMSG">>,
                    root.spawned \o g.spawned, "notasked", "ok", WriteFile(editmsg, msg))
         : root \in {get_git_root},
           g \in {run_git_command(<<"git", "diff", "--cached">>, env.p1)},
           msg \in {Strip(env.llm.text)} })

\* the command and the wording get_git_diff chooses for file_path
DiffCmd(file_path) ==
    IF file_path \in {"--cached", "--staged"} THEN <<"git", "diff", "--cached">>
    ELSE IF file_path # "" THEN <<"git", "diff", file_path>>
    ELSE <<"git", "diff">>

DiffType(file_path) ==
    IF file_path \in {"--cached", "--staged"} THEN <<"staged changes">>
    ELSE IF file_path # "" THEN <<"changes in ", file_path>>
    ELSE <<"working directory changes">>

\* diff_output = f"Git diff ({diff_type}):\n{result['stdout']}"
DiffOutput(file_path, stdout) ==
    <<"Git diff (">> \o DiffType(file_path) \o <<"):\n">> \o stdout

get_git_diff(file_path, generate_commit, env) ==
    Only({ IF g.raised # "none"
           THEN OuterExcept(g.message, g.spawned, "notasked", "none")
           ELSE IF ~g.result.success
           THEN Res(<<"Error getting git diff: ">> \o g.result.stderr, g.spawned,
                    "notasked", "none", editmsg)
           ELSE IF g.result.stdout = <<>>
           THEN Res(<<"No ">> \o diff_type \o <<" found">>, g.spawned, "notasked", "none",
                    editmsg)
           ELSE IF generate_commit # "true"
           THEN Res(DiffOutput(file_path, g.result.stdout), g.spawned, "notasked", "none",
                    editmsg)
           ELSE IF ~root.found
           THEN Res(DiffOutput(file_path, g.result.stdout), g.spawned \o root.spawned,
                    "notasked", "none", editmsg)
           ELSE IF ~env.llm.ok
           THEN Res(DiffOutput(file_path, g.result.stdout)
                      \o <<"\n\nCould not generate commit message: ">> \o env.llm.text,
                    g.spawned \o root.spawned, "notasked", "failed", editmsg)
           ELSE IF env.fs # "ok"
           THEN Res(DiffOutput(file_path, g.result.stdout)
                      \o <<"\n\nCould not generate commit message: ", "Permission denied">>,
                    g.spawned \o root.spawned, "notasked", "ok", editmsg)
           ELSE Res(DiffOutput(file_path, g.result.stdout)
                      \o <<"\n\nGenerated commit message (saved to .git/COMMIT_EDITMSG):\n">>
                      \o msg,
                    g.spawned \o root.spawned, "notasked", "ok", WriteFile(editmsg, msg))
         : g \in {run_git_command(DiffCmd(file_path), env.p1)},
           diff_type \in {DiffType(file_path)},
           root \in {get_git_root},
           msg \in {Strip(env.llm.text)} })

\* whether git_add_files / git_push ask, and what Confirm.ask answered
AddConfirm(files, env) ==
    IF ~(files = "." /\ settings.require_confirmation) THEN "notasked"
    ELSE IF env.confirm THEN "yes" ELSE "no"

PushConfirm_gatefirst(env) ==
    IF ~settings.require_confirmation \/ "push" \notin settings.allowed_git_commands
    THEN "notasked"
    ELSE IF env.confirm THEN "yes" ELSE "no"

PushConfirm(env) ==
    IF ~settings.require_confirmation THEN "notasked"
    ELSE IF env.confirm THEN "yes" ELSE "no"

git_add_files(files, env) ==
    Only({ IF conf = "no"
           THEN Res(<<"Operation cancelled by user">>, <<>>, conf, "none", editmsg)
           ELSE IF g.raised # "none"
           THEN OuterExcept(g.message, g.spawned, conf, "none")
           ELSE IF g.result.success
           THEN Res(<<"Successfully added ", files, " to staging area">>, g.spawned, conf,
                    "none", editmsg)
           ELSE Res(<<"Error adding files: ">> \o g.result.stderr, g.spawned, conf, "none",
                    editmsg)
         : conf \in {AddConfirm(files, env)},
           g \in {run_git_command(<<"git", "add", files>>, env.p1)} })

git_commit(message, env) ==
    Only({ IF Strip(ToText(message)) = <<>>
           THEN Res(<<"Error: Commit message cannot be empty">>, <<>>, "notasked", "none",
                    editmsg)
           ELSE IF g.raised # "none"
           THEN OuterExcept(g.message, g.spawned, "notasked", "none")
           ELSE IF g.result.success
           THEN Res(<<"Successfully committed with message: '", message, "'">>, g.spawned,
                    "notasked", "none", editmsg)
           ELSE Res(<<"Error committing: ">> \o g.result.stderr, g.spawned, "notasked",
                    "none", editmsg)
         : g \in {run_git_command(<<"git", "commit", "-m", message>>, env.p1)} })

\* cmd = ["git", verb, remote] (+ [branch] if branch)
RemoteCmd(verb, remote, branch) ==
    <<"git", verb, remote>> \o (IF branch # "" THEN <<branch>> ELSE <<>>)

git_push_ignores_answer(remote, branch, env) ==
    Only({ IF g.raised # "none"
           THEN OuterExcept(g.message, g.spawned, conf, "none")
           ELSE IF g.result.success
           THEN Res(<<"Successfully pushed to ", remote>>, g.spawned, conf, "none", editmsg)
           ELSE Res(<<"Error pushing: ">> \o g.result.stderr, g.spawned, conf, "none",
                    editmsg)
         : conf \in {PushConfirm(env)},
           g \in {run_git_command(RemoteCmd("push", remote, branch), env.p1)} })

git_push(remote, branch, env) ==
    Only({ IF conf = "no"
           THEN Res(<<"Push cancelled by user">>, <<>>, conf, "none", editmsg)
           ELSE IF g.raised # "none"
           THEN OuterExcept(g.message, g.spawned, conf, "none")
           ELSE IF g.result.success
           THEN Res(<<"Successfully pushed to ", remote>>, g.spawned, conf, "none", editmsg)
           ELSE Res(<<"Error pushing: ">> \o g.result.stderr, g.spawned, conf, "none",
                    editmsg)
         : conf \in {PushConfirm(env)},
           g \in {run_git_command(RemoteCmd("push", remote, branch), env.p1)} })

git_pull(remote, branch, env) ==
    Only({ IF g.raised # "none"
           THEN OuterExcept(g.message, g.spawned, "notasked", "none")
           ELSE IF g.result.success
           THEN Res(<<"Successfully pulled from ", remote, ": ">> \o g.result.stdout,
                    g.spawned, "notasked", "none", editmsg)
           ELSE Res(<<"Error pulling: ">> \o g.result.stderr, g.spawned, "notasked", "none",
                    editmsg)
         : g \in {run_git_command(RemoteCmd("pull", remote, branch), env.p1)} })

\* f"-{num_commits}"
DashNum(num_commits) == IF num_commits = "10" THEN "-10" ELSE "-3"

git_log(num_commits, env) ==
    Only({ IF g.raised # "none"
           THEN OuterExcept(g.message, g.spawned, "notasked", "none")
           ELSE IF g.result.success
           THEN IF g.result.stdout # <<>>
                THEN Res(<<"Recent commits:\n">> \o g.result.stdout, g.spawned, "notasked",
                         "none", editmsg)
                ELSE Res(<<"No commits found">>, g.spawned, "notasked", "none", editmsg)
           ELSE Res(<<"Error getting git log: ">> \o g.result.stderr, g.spawned, "notasked",
                    "none", editmsg)
         : g \in {run_git_command(<<"git", "log", DashNum(num_commits), "--oneline">>,
                                  env.p1)} })

\* names of the registered tools
GIT_TOOLS == {"generate_commit_message", "read_commit_editmsg", "improve_commit_message",
              "get_git_status", "get_git_diff", "git_add_files", "git_commit", "git_push",
              "git_pull", "git_log"}


\* one requested invocation: the tool's name and its two argument slots
\* (unused slots hold "")
ToolCallsOf(tool) ==
    CASE tool = "get_git_diff" ->
             [tool : {tool}, a1 : {"", "--cached", "f.py"}, a2 : {"false"}]
               \cup [tool : {tool}, a1 : {""}, a2 : {"true"}]
      [] tool = "git_add_files" -> [tool : {tool}, a1 : {".", "-A", "f.py"}, a2 : {""}]
      [] tool = "git_commit" -> [tool : {tool}, a1 : {"", " ", "msg"}, a2 : {""}]
      [] tool = "git_push" -> [tool : {tool}, a1 : {"origin"}, a2 : {"", "main"}]
      [] tool = "git_pull" -> [tool : {tool}, a1 : {"origin"}, a2 : {""}]
      [] tool = "git_log" -> [tool : {tool}, a1 : {"10"}, a2 : {""}]
      [] OTHER -> [tool : {tool}, a1 : {""}, a2 : {""}]

\* the environments that make a difference to each invocation: what follows
\* the first command is varied only when that command delivers output
EnvsOf(call) ==
    CASE call.tool = "generate_commit_message" ->
             Env(Procs \ {NoProc}, {NoProc}, {NoCompletion}, {TRUE}, {"ok"})
               \cup Env({NoProc}, Procs, ToolCompletions, {TRUE}, {"ok", "ioerror"})
      [] call.tool = "improve_commit_message" \/ (call.tool = "get_git_diff" /\ call.a2 = "true") ->
             Env(Procs \ {NoProc}, {NoProc}, {NoCompletion}, {TRUE}, {"ok"})
               \cup Env({NoProc}, {NoProc}, ToolCompletions, {TRUE}, {"ok", "ioerror"})
      [] call.tool = "read_commit_editmsg" ->
             Env({NoProc}, {NoProc}, {NoCompletion}, {TRUE}, {"ok", "ioerror"})
      [] call.tool \in {"git_add_files", "git_push"} ->
             Env(Procs, {NoProc}, {NoCompletion}, {TRUE}, {"ok"})
               \cup Env({NoProc}, {NoProc}, {NoCompletion}, {FALSE}, {"ok"})
      [] OTHER -> Env(Procs, {NoProc}, {NoCompletion}, {TRUE}, {"ok"})

\* the registry: tool.run(tool_input) of the tool looked up by name
Invoke(call, env) ==
    CASE call.tool = "get_git_status" -> get_git_status(env)
      [] call.tool = "generate_commit_message" -> generate_commit_message(env)
      [] call.tool = "read_commit_editmsg" -> read_commit_editmsg(env)
      [] call.tool = "improve_commit_message" -> improve_commit_message(env)
      [] call.tool = "get_git_diff" -> get_git_diff(call.a1, call.a2, env)
      [] call.tool = "git_add_files" -> git_add_files(call.a1, env)
      [] call.tool = "git_commit" -> git_commit(call.a1, env)
      [] call.tool = "git_push" -> git_push(call.a1, call.a2, env)
      [] call.tool = "git_pull" -> git_pull(call.a1, call.a2, env)
      [] OTHER -> git_log(call.a1, env)

(* ---------------------------------------------------------- ReAct parser *)
Range(t) == {t[i] : i \in 1..Len(t)}

Min(S) == CHOOSE x \in S : \A y \in S : x <= y
Max(S) == CHOOSE x \in S : \A y \in S : x >= y

\* the output parser of the agent built by create_react_agent: an action needs
\* an "Action:" label followed later by an "Action Input:" label; a final
\* answer is the text after the last "Final Answer:" label
Parse(text) ==
    LET includes_answer == "Final Answer:" \in Range(text)
        starts == {i \in 1..Len(text) : text[i] = "Action:" /\
                      \E j \in (i+1)..Len(text) : text[j] = "Action Input:"}
        noStep == [kind |-> "error", tool |-> "", a1 |-> "", a2 |-> "", output |-> <<>>,
                   observation |-> <<"Invalid or incomplete response">>]
    IN  IF starts # {}
        THEN LET i == Min(starts)
                 j == Min({k \in (i+1)..Len(text) : text[k] = "Action Input:"})
                 name == Strip(SubSeq(text, i + 1, j - 1))
                 input == SubSeq(text, j + 1, Len(text))
             IN  IF includes_answer
                 THEN noStep
                 ELSE [noStep EXCEPT !.kind = "action",
                          !.tool = IF Len(name) = 1 THEN name[1] ELSE "",
                          !.a1 = IF Len(input) >= 1 THEN input[1] ELSE "",
                          !.a2 = IF Len(input) >= 2 THEN input[2] ELSE ""]
        ELSE IF includes_answer
        THEN LET k == Max({i \in 1..Len(text) : text[i] = "Final Answer:"})
             IN  [noStep EXCEPT !.kind = "finish",
                                !.output = Strip(SubSeq(text, k + 1, Len(text)))]
        ELSE IF "Action:" \notin Range(text)
        THEN [noStep EXCEPT
                 !.observation = <<"Invalid Format: Missing 'Action:' after 'Thought:'">>]
        ELSE [noStep EXCEPT
                 !.observation = <<"Invalid Format: Missing 'Action Input:' after 'Action:'">>]

\* the model's text for a requested tool call
ActionText(call) == <<"Thought:", "t", "\n", "Action:", call.tool, "\n", "Action Input:",
                      call.a1, call.a2>>


(* ------------------------------------------------------- process_request *)
(* process_request hands the Task to the AgentExecutor built in            *)
(* _initialize_agent.  The executor is the library's loop; it is modelled   *)
(* as configured there: one completion per cycle, at most max_iterations    *)
(* cycles, a parse failure turned into an Observation, and, when the budget *)
(* is used up, return_stopped_response called with "generate", which the    *)
(* agent made by create_react_agent rejects with a ValueError.  Texts of    *)
(* the source that start with a pictograph are given without it.            *)
UpperCase == <<"A", "B", "C", "D", "E", "F", "G", "H", "I", "J", "K", "L", "M",
               "N", "O", "P", "Q", "R", "S", "T", "U", "V", "W", "X", "Y", "Z">>
LowerCase == <<"a", "b", "c", "d", "e", "f", "g", "h", "i", "j", "k", "l", "m",
               "n", "o", "p", "q", "r", "s", "t", "u", "v", "w", "x", "y", "z">>

\* str.lower(), on a text given as a sequence of characters
Lower(s) == [i \in 1..Len(s) |->
                IF \E k \in 1..26 : UpperCase[k] = s[i]
                THEN LowerCase[CHOOSE k \in 1..26 : UpperCase[k] = s[i]]
                ELSE s[i]]

\* keyword in text
Contains(sub, s) ==
    \E i \in 1..(Len(s) - Len(sub) + 1) : SubSeq(s, i, i + Len(sub) - 1) = sub

git_keywords == { <<"g", "i", "t">>, <<"c", "o", "m", "m", "i", "t">>, <<"p", "u", "s", "h">>,
                  <<"p", "u", "l", "l">>, <<"b", "r", "a", "n", "c", "h">>,
                  <<"s", "t", "a", "t", "u", "s">>, <<"d", "i", "f", "f">> }

HasGitKeyword_exact(text) == text \in git_keywords

\* any(keyword in user_input.lower() for keyword in git_keywords)
HasGitKeyword(text) == \E keyword \in git_keywords : Contains(keyword, Lower(text))

\* Tasks submitted by the front end (texts as sequences of characters)
Tasks == { <<"m", "y", " ", "s", "t", "a", "t", "u", "s">>, <<"P", "u", "s", "h">>,
           <<"l", "o", "g", "s">> }

NoTask == <<>>

Advisory == <<"You're not in a Git repository. Please navigate to a Git repository first.">>

\* the message of the ValueError raised by return_stopped_response("generate")
StopMessage == <<"Got unsupported early_stopping_method generate">>

ErrorReturn(message) ==
    <<"I encountered an error: ">> \o message \o <<". Let me try to help you differently.">>

ProcessRequestExcept_reraise(message) == [ret |-> None, raised |-> "Exception"]

\* the handler of process_request: every Exception becomes the returned text
ProcessRequestExcept(message) == [ret |-> ErrorReturn(message), raised |-> "none"]

\* answers the model may give after "Final Answer:"
FinalTexts == { <<" ", "Done", "\n">>, ErrorReturn(StopMessage),
                <<"Done", "\n", "Action:", "git_log">> }

\* texts the model may return that carry no parsable step
BadTexts == { <<"blah">>, <<"Thought:", "hmm">>, <<"Action:", "git_log">>,
              <<"Final Answer:", "Done", "\n", "Action:", "get_git_status", "\n",
                "Action Input:", "", "">> }

\* names the model may give that are not registered
UnknownTools == {"git_rebase", "get_git_status()"}

ConnectionErrors == { <<"connection refused">> }

\* how a gated command ended, as its caller sees it
ProcLabel(proc) ==
    CASE proc.kind = "timeout" -> "timeout"
      [] proc.kind = "oserror" -> "oserror"
      [] proc.returncode # 0 -> "failed"
      [] Strip(proc.stdout) = <<>> -> "blank"
      [] OTHER -> "out"

\* how the commands a tool spawned through the gate ended, in order
GatedOutcomes(spawned, env) ==
    LET n == Len(SelectSeq(spawned, LAMBDA sp : sp.via = "gate"))
    IN  [i \in 1..n |-> ProcLabel(IF i = 1 THEN env.p1 ELSE env.p2)]

ToolModelUse_reenters(llm) ==
    [managers |-> IF llm = "none" THEN 0 ELSE 1,
     completions |-> IF llm = "none" THEN 0 ELSE 1,
     loops |-> IF llm = "none" THEN 0 ELSE 1,
     actions |-> 0]

\* what a tool does with the model: it constructs an OllamaManager (whose
\* __init__ builds the llm and an AgentExecutor) and calls ollama.llm.invoke
\* once; it calls neither process_request nor agent_executor.invoke nor
\* another tool
ToolModelUse(llm) ==
    [managers |-> IF llm = "none" THEN 0 ELSE 1,
     completions |-> IF llm = "none" THEN 0 ELSE 1,
     loops |-> 0,
     actions |-> 0]

NoEv == [op |-> "none", tool |-> "", a1 |-> "", a2 |-> "", spawned |-> <<>>,
         conf |-> "notasked", llm |-> "none", text |-> <<>>, gen |-> <<>>,
         fileBefore |-> None, procs |-> <<>>, nested |-> ToolModelUse("none")]

NoGate == [command |-> <<>>, proc |-> NoProc,
           out |-> [raised |-> "nocall", message |-> <<>>, exit_code |-> "",
                    spawned |-> <<>>, result |-> NoResult]]

\* worker threads started by GitAgentApp.process_request (@work(thread=True))
Workers == {1, 2}

\* a worker that has no Task: its position, its executor's iteration count
\* and last Observation, the value it returns, and for the Task at hand the
\* tool it ran last and the text it last wrote to COMMIT_EDITMSG
IdleWorker == [pc |-> "idle", iterations |-> 0, observation |-> <<>>, ret |-> None,
               last |-> "", wrote |-> None]

Init ==
    /\ settings \in [allowed_git_commands : AllowLists,
                     require_confirmation : BOOLEAN,
                     max_iterations : 1..MaxIter]
    /\ inRepo \in BOOLEAN
    /\ editmsg \in IF inRepo THEN {None, <<"wip", "\n">>} ELSE {None}
    /\ pc = "idle"
    /\ user_input = NoTask
    /\ iterations = 0
    /\ observation = <<>>
    /\ ret = None
    /\ raised = "none"
    /\ termKind = "none"
    /\ modelCalls = 0
    /\ toolCalls = 0
    /\ onlyParseErrors = TRUE
    /\ connFailed = "none"
    /\ ev = NoEv
    /\ gate = NoGate
    /\ workers = [w \in Workers |-> IdleWorker]

ShouldContinue_offbyone == iterations <= settings.max_iterations

\* AgentExecutor._should_continue with max_iterations=settings.max_iterations
ShouldContinue == iterations < settings.max_iterations

\* process_request up to the call of agent_executor.invoke
Submit ==
    /\ pc = "idle"
    /\ \E task \in Tasks :
         LET repo == is_git_repo
         IN  /\ user_input' = task
             /\ ev' = [NoEv EXCEPT !.op = "begin", !.spawned = repo.spawned]
             /\ IF ~repo.found /\ HasGitKeyword(task)
                THEN /\ pc' = "done"
                     /\ ret' = Advisory
                     /\ termKind' = "advisory"
                ELSE /\ pc' = "running"
                     /\ ret' = None
                     /\ termKind' = "none"
    /\ iterations' = 0
    /\ observation' = <<>>
    /\ raised' = "none"
    /\ modelCalls' = 0
    /\ toolCalls' = 0
    /\ onlyParseErrors' = TRUE
    /\ connFailed' = "none"
    /\ UNCHANGED <<settings, inRepo, editmsg, gate, workers>>

\* a cycle whose completion fails to reach the backend: the exception leaves
\* agent_executor.invoke and is handled by process_request
CycleConnectionFailure ==
    /\ pc = "running" /\ ShouldContinue
    /\ \E e \in ConnectionErrors :
         LET h == ProcessRequestExcept(e)
         IN  ret' = h.ret /\ raised' = h.raised
    /\ pc' = "done"
    /\ termKind' = "connection"
    /\ connFailed' = "loop"
    /\ modelCalls' = modelCalls + 1
    /\ onlyParseErrors' = FALSE
    /\ ev' = [NoEv EXCEPT !.op = "connfail"]
    /\ UNCHANGED <<settings, inRepo, editmsg, user_input, iterations, observation,
                   toolCalls, gate, workers>>

\* a cycle whose completion parses to a final answer
CycleFinalAnswer ==
    /\ pc = "running" /\ ShouldContinue
    /\ \E f \in FinalTexts :
         LET text == <<"Thought:", "t", "\n", "Final Answer:">> \o f
             step == Parse(text)
         IN  /\ step.kind = "finish"
             /\ ret' = step.output
             /\ ev' = [NoEv EXCEPT !.op = "final", !.text = text]
    /\ pc' = "done"
    /\ termKind' = "final"
    /\ modelCalls' = modelCalls + 1
    /\ onlyParseErrors' = FALSE
    /\ UNCHANGED <<settings, inRepo, editmsg, user_input, iterations, observation,
                   raised, toolCalls, connFailed, gate, workers>>

\* a cycle whose completion does not parse (handle_parsing_errors=True)
CycleParseError ==
    /\ pc = "running" /\ ShouldContinue
    /\ \E text \in BadTexts :
         LET step == Parse(text)
         IN  /\ step.kind = "error"
             /\ observation' = step.observation
             /\ ev' = [NoEv EXCEPT !.op = "parse_error", !.text = text]
    /\ iterations' = iterations + 1
    /\ modelCalls' = modelCalls + 1
    /\ UNCHANGED <<settings, inRepo, editmsg, pc, user_input, ret, raised, termKind,
                   toolCalls, onlyParseErrors, connFailed, gate, workers>>

\* a cycle whose completion names a tool that is not registered (InvalidTool)
CycleInvalidTool ==
    /\ pc = "running" /\ ShouldContinue
    /\ \E name \in UnknownTools :
         LET text == ActionText([tool |-> name, a1 |-> "", a2 |-> ""])
             step == Parse(text)
         IN  /\ step.kind = "action" /\ step.tool \notin GIT_TOOLS
             /\ observation' = <<step.tool, " is not a valid tool, try one of the registered tools.">>
             /\ ev' = [NoEv EXCEPT !.op = "invalid_tool", !.tool = step.tool,
                                   !.text = text]
    /\ iterations' = iterations + 1
    /\ modelCalls' = modelCalls + 1
    /\ onlyParseErrors' = FALSE
    /\ UNCHANGED <<settings, inRepo, editmsg, pc, user_input, ret, raised, termKind,
                   toolCalls, connFailed, gate, workers>>

\* a cycle whose completion parses to a registered tool: the tool runs and its
\* return value becomes the Observation
CycleTool ==
    /\ pc = "running" /\ ShouldContinue
    /\ \E tool \in GIT_TOOLS : \E call \in ToolCallsOf(tool) :
       \E text \in {ActionText(call)} : \E step \in {Parse(text)} :
       \E env \in EnvsOf(call) :
       \E r \in {Invoke([tool |-> step.tool, a1 |-> step.a1, a2 |-> step.a2], env)} :
         LET h == ProcessRequestExcept(<<r.threw>>)
         IN  /\ step.kind = "action" /\ step.tool \in GIT_TOOLS
             /\ editmsg' = r.file
             /\ ev' = [op |-> "tool", tool |-> step.tool, a1 |-> step.a1, a2 |-> step.a2,
                       spawned |-> r.spawned, conf |-> r.conf, llm |-> r.llm,
                       text |-> text,
                       gen |-> IF r.llm = "none" THEN <<>> ELSE env.llm.text,
                       fileBefore |-> editmsg,
                       procs |-> GatedOutcomes(r.spawned, env),
                       nested |-> ToolModelUse(r.llm)]
             /\ connFailed' = IF r.llm = "failed" THEN "tool" ELSE connFailed
             /\ IF r.threw = "none"
                THEN /\ observation' = r.obs
                     /\ iterations' = iterations + 1
                     /\ UNCHANGED <<pc, ret, raised, termKind>>
                ELSE /\ pc' = "done"
                     /\ ret' = h.ret
                     /\ raised' = h.raised
                     /\ termKind' = "error"
                     /\ UNCHANGED <<observation, iterations>>
    /\ modelCalls' = modelCalls + 1
    /\ toolCalls' = toolCalls + 1
    /\ onlyParseErrors' = FALSE
    /\ UNCHANGED <<settings, inRepo, user_input, gate, workers>>

\* the iteration budget is used up: return_stopped_response is called with
\* early_stopping_method="generate", which the agent does not support
Exhausted ==
    /\ pc = "running" /\ ~ShouldContinue
    /\ LET h == ProcessRequestExcept(StopMessage)
       IN  ret' = h.ret /\ raised' = h.raised
    /\ pc' = "done"
    /\ termKind' = "exhausted"
    /\ ev' = [NoEv EXCEPT !.op = "exhausted"]
    /\ UNCHANGED <<settings, inRepo, editmsg, user_input, iterations, observation,
                   modelCalls, toolCalls, onlyParseErrors, connFailed, gate, workers>>

\* the worker hands the response to the front end; the next Task may start
Finish ==
    /\ pc = "done"
    /\ pc' = "idle"
    /\ user_input' = NoTask
    /\ iterations' = 0
    /\ observation' = <<>>
    /\ ret' = None
    /\ raised' = "none"
    /\ termKind' = "none"
    /\ modelCalls' = 0
    /\ toolCalls' = 0
    /\ onlyParseErrors' = TRUE
    /\ connFailed' = "none"
    /\ ev' = NoEv
    /\ UNCHANGED <<settings, inRepo, editmsg, gate, workers>>

Next ==
    \/ Submit
    \/ CycleConnectionFailure
    \/ CycleFinalAnswer
    \/ CycleParseError
    \/ CycleInvalidTool
    \/ CycleTool
    \/ Exhausted
    \/ Finish

Spec == Init /\ [][Next]_vars

(* ------------------------------------------- concurrent worker threads *)
(* GitAgentApp.process_request is a thread worker: every menu selection or  *)
(* submitted prompt starts one, and they all run process_request of the one *)
(* OllamaManager in the one working directory.  Each invocation of the      *)
(* executor has its own scratchpad and iteration count; COMMIT_EDITMSG is   *)
(* the repository's.  A step of a worker is one whole cycle; the model      *)
(* chooses among the tools that read or write COMMIT_EDITMSG.               *)

\* texts by which a tool reports that it saved COMMIT_EDITMSG
SavedMarkers == {"Generated commit message and saved to .git/COMMIT_EDITMSG:\n\n",
                 "Improved commit message:\n\n",
                 "\n\nGenerated commit message (saved to .git/COMMIT_EDITMSG):\n"}

ReportsSaved(obs) == Range(obs) \cap SavedMarkers # {}

FileTools == {"generate_commit_message", "read_commit_editmsg", "improve_commit_message"}

\* the environments of a worker's tool: the staged diff and the file system
\* work, the tool's completion succeeds, fails or carries whitespace
WorkerEnvsOf(call) == {env \in EnvsOf(call) : env.p1 = NoProc /\ env.p2 = NoProc /\ env.fs = "ok"}

\* the worker's Task reaches agent_executor.invoke, or gets the advisory
WorkerSubmit(w) ==
    /\ workers[w].pc = "idle"
    /\ \E task \in Tasks :
         workers' = [workers EXCEPT ![w] =
            IF ~is_git_repo.found /\ HasGitKeyword(task)
            THEN [IdleWorker EXCEPT !.pc = "done", !.ret = Advisory]
            ELSE [IdleWorker EXCEPT !.pc = "running"]]
    /\ UNCHANGED <<settings, inRepo, editmsg, pc, user_input, iterations, observation, ret,
                   raised, termKind, modelCalls, toolCalls, onlyParseErrors, connFailed, ev,
                   gate>>

\* one cycle of the worker's executor running a tool on COMMIT_EDITMSG
WorkerCycleTool(w) ==
    /\ workers[w].pc = "running"
    /\ workers[w].iterations < settings.max_iterations
    /\ \E tool \in FileTools : \E call \in ToolCallsOf(tool) :
       \E step \in {Parse(ActionText(call))} : \E env \in WorkerEnvsOf(call) :
       \E r \in {Invoke([tool |-> step.tool, a1 |-> step.a1, a2 |-> step.a2], env)} :
         /\ step.kind = "action" /\ step.tool \in GIT_TOOLS
         /\ editmsg' = r.file
         /\ workers' = [workers EXCEPT ![w] =
               [@ EXCEPT !.iterations = @ + 1,
                         !.observation = r.obs,
                         !.last = step.tool,
                         !.wrote = IF ReportsSaved(r.obs) THEN r.file ELSE @]]
    /\ UNCHANGED <<settings, inRepo, pc, user_input, iterations, observation, ret,
                   raised, termKind, modelCalls, toolCalls, onlyParseErrors, connFailed, ev,
                   gate>>

\* the worker's executor gets a final answer
WorkerFinalAnswer(w) ==
    /\ workers[w].pc = "running"
    /\ workers[w].iterations < settings.max_iterations
    /\ \E f \in {<<" ", "Done", "\n">>} :
         LET step == Parse(<<"Thought:", "t", "\n", "Final Answer:">> \o f)
         IN  /\ step.kind = "finish"
             /\ workers' = [workers EXCEPT ![w] = [@ EXCEPT !.pc = "done",
                                                            !.ret = step.output]]
    /\ UNCHANGED <<settings, inRepo, editmsg, pc, user_input, iterations, observation, ret,
                   raised, termKind, modelCalls, toolCalls, onlyParseErrors, connFailed, ev,
                   gate>>

\* the worker's executor has used up its budget
WorkerExhausted(w) ==
    /\ workers[w].pc = "running"
    /\ ~(workers[w].iterations < settings.max_iterations)
    /\ workers' = [workers EXCEPT ![w] =
          [@ EXCEPT !.pc = "done", !.ret = ProcessRequestExcept(StopMessage).ret]]
    /\ UNCHANGED <<settings, inRepo, editmsg, pc, user_input, iterations, observation, ret,
                   raised, termKind, modelCalls, toolCalls, onlyParseErrors, connFailed, ev,
                   gate>>

\* the worker logs the response and ends
WorkerFinish(w) ==
    /\ workers[w].pc = "done"
    /\ workers' = [workers EXCEPT ![w] = IdleWorker]
    /\ UNCHANGED <<settings, inRepo, editmsg, pc, user_input, iterations, observation, ret,
                   raised, termKind, modelCalls, toolCalls, onlyParseErrors, connFailed, ev,
                   gate>>

WorkersNext ==
    \/ \E w \in Workers : WorkerSubmit(w)
    \/ \E w \in Workers : WorkerCycleTool(w)
    \/ \E w \in Workers : WorkerFinalAnswer(w)
    \/ \E w \in Workers : WorkerExhausted(w)
    \/ \E w \in Workers : WorkerFinish(w)

WorkersSpec == Init /\ [][WorkersNext]_vars

(* ------------------------------------------------- the gate on its own *)
RECURSIVE SeqsUpTo(_, _)
SeqsUpTo(S, n) ==
    IF n = 0 THEN {<<>>}
    ELSE LET shorter == SeqsUpTo(S, n - 1)
         IN  shorter \cup {Append(q, x) : q \in shorter, x \in S}

GateTokens == {"git", "status", "push", "rebase"}

GateCommands == SeqsUpTo(GateTokens, MaxCmdLen)

\* run_git_command called with an arbitrary command
GateCall ==
    /\ \E command \in GateCommands : \E proc \in Procs :
         gate' = [command |-> command, proc |-> proc, out |-> run_git_command(command, proc)]
    /\ UNCHANGED <<settings, inRepo, editmsg, pc, user_input, iterations, observation, ret,
                   raised, termKind, modelCalls, toolCalls, onlyParseErrors, connFailed, ev,
                   workers>>

GateNext == GateCall

GateSpec == Init /\ [][GateNext]_vars


(* ================================================================ claims *)

\* the primary verb of a command: the element after "git", with "git"
\* prepended when the command does not start with it
PrimaryVerb(command) ==
    LET cmd == IF command = <<>> \/ command[1] # "git" THEN <<"git">> \o command
               ELSE command
    IN  IF Len(cmd) > 1 THEN cmd[2] ELSE ""

GateCalled == gate.out.raised # "nocall"

\* C1: a command handed to run_git_command whose primary verb is not in the
\* allowlist spawns no subprocess.
C1_DisallowedNeverSpawns ==
    (GateCalled /\ PrimaryVerb(gate.command) \notin settings.allowed_git_commands)
        => gate.out.spawned = <<>>

\* C1 witness: Scenario A, allowlist {status} and command [git, push].
C1_Witness ==
    /\ settings.allowed_git_commands = {"status"}
    /\ gate.command = <<"git", "push">>
    /\ gate.out.raised = "UnsafeOperationError"
    /\ gate.out.spawned = <<>>

\* C2 (as claimed): every subprocess spawned while a Task is processed is
\* spawned by run_git_command, after its allowlist check.
C2_AllSpawnsThroughGate ==
    \A i \in 1..Len(ev.spawned) :
        /\ ev.spawned[i].via = "gate"
        /\ PrimaryVerb(ev.spawned[i].argv) \in settings.allowed_git_commands

\* pathspecs of git add that stage in bulk
BulkPathspecs == {".", "-A"}

Destructive(e) ==
    \/ e.tool = "git_push"
    \/ e.tool = "git_add_files" /\ e.a1 \in BulkPathspecs

\* C3 (as claimed): with require_confirmation enabled, a push or a bulk staging
\* spawns a process only when the confirmation was asked and answered yes.
C3_DestructiveNeedsConfirmation ==
    (ev.op = "tool" /\ settings.require_confirmation /\ Destructive(ev)
        /\ ev.spawned # <<>>) => ev.conf = "yes"

C5_GateNeverRaises == gate.out.raised \in {"nocall", "none"}

\* C5 (amended): run_git_command returns an outcome only when the process ran
\* to completion; a disallowed verb raises UnsafeOperationError, a timeout or
\* a spawn failure raises GitCommandError with exit code -1 (and the text
\* Command timed out on a timeout), an empty command raises IndexError.
C5_GateOutcomeOrException ==
    GateCalled =>
      LET allowedVerb == PrimaryVerb(gate.command) \in settings.allowed_git_commands
          out == gate.out
      IN  /\ gate.command = <<>> => out.raised = "IndexError"
          /\ (gate.command # <<>> /\ ~allowedVerb) => out.raised = "UnsafeOperationError"
          /\ (gate.command # <<>> /\ allowedVerb /\ gate.proc.kind = "exit")
                => /\ out.raised = "none"
                   /\ out.result.returncode = gate.proc.returncode
                   /\ out.result.success = (gate.proc.returncode = 0)
                   /\ out.result.stdout = Strip(gate.proc.stdout)
                   /\ out.result.stderr = Strip(gate.proc.stderr)
          /\ (gate.command # <<>> /\ allowedVerb /\ gate.proc.kind # "exit")
                => /\ out.raised = "GitCommandError"
                   /\ out.exit_code = "-1"
          /\ (gate.command # <<>> /\ allowedVerb /\ gate.proc.kind = "timeout")
                => "Command timed out" \in Range(out.message)

\* C5 witness: an allowed command times out.
C5_Witness ==
    /\ gate.command = <<"git", "status">>
    /\ gate.proc.kind = "timeout"
    /\ gate.out.raised = "GitCommandError"

\* C6 (as claimed): the value returned for a confirmed final answer or for a
\* connection failure is never the value returned for an exhausted budget.
C6_DegradedDistinguishable ==
    (pc = "done" /\ termKind \in {"final", "connection"}) => ret # ErrorReturn(StopMessage)

\* the verb of the first gated command of the tools that start with one
FirstVerb(tool) ==
    CASE tool = "get_git_status" -> "status"
      [] tool = "get_git_diff" -> "diff"
      [] tool = "git_pull" -> "pull"
      [] OTHER -> "log"

C8_DeclinedIsCancelled ==
    (ev.op = "tool" /\ ev.conf = "no") =>
        /\ settings.require_confirmation
        /\ observation \in {<<"Push cancelled by user">>, <<"Operation cancelled by user">>}
        /\ ev.spawned = <<>>
        /\ pc = "running" /\ termKind = "none"

\* C8 witness: a push is declined.
C8_Witness ==
    /\ ev.op = "tool" /\ ev.tool = "git_push" /\ ev.conf = "no"
    /\ settings.require_confirmation
    /\ observation = <<"Push cancelled by user">>

\* the Task text contains a git keyword
ContainsKeyword(text) == \E keyword \in git_keywords : Contains(keyword, text)

\* C9: a Task whose text contains a git keyword, submitted outside a
\* repository, ends with the advisory message and no model call.
C9_AdvisoryOutsideRepo ==
    (pc # "idle" /\ ~inRepo /\ ContainsKeyword(user_input)) =>
        /\ pc = "done" /\ termKind = "advisory"
        /\ ret = Advisory
        /\ modelCalls = 0 /\ toolCalls = 0

\* C9 witness: the keyword is part of a longer text.
C9_Witness ==
    /\ pc = "done" /\ ~inRepo /\ ret = Advisory
    /\ user_input = <<"m", "y", " ", "s", "t", "a", "t", "u", "s">>

\* C10 (as claimed): once any model call of the Task has failed to reach the
\* backend, the Task makes no further model call and runs no further action.
C10_AnyConnectionFailureFatal ==
    [][(connFailed # "none" /\ pc' # "idle")
          => (modelCalls' = modelCalls /\ toolCalls' = toolCalls)]_vars

\* C10 (amended): a failure of the loop's own model call ends the Task with an
\* error text returned to the caller and nothing further is called; a failure
\* of a model call made inside a tool is that tool's Observation and the loop
\* keeps running.
C10_LoopConnectionFailureFatal ==
    /\ [](connFailed = "loop" =>
            /\ pc = "done" /\ termKind = "connection" /\ raised = "none"
            /\ ret \in {ErrorReturn(e) : e \in ConnectionErrors})
    /\ []((ev.op = "tool" /\ ev.llm = "failed") =>
            /\ pc = "running" /\ connFailed = "tool"
            /\ "connection refused" \in Range(observation))
    /\ [][(connFailed = "loop" /\ pc' # "idle")
            => (modelCalls' = modelCalls /\ toolCalls' = toolCalls)]_vars

\* C10 witness: the loop's model call fails after a tool has already run.
C10_Witness ==
    /\ connFailed = "loop" /\ pc = "done" /\ toolCalls > 0
    /\ ret = ErrorReturn(<<"connection refused">>)

\* the text has a Final Answer: label and a later Action: label
FinalThenAction(text) ==
    \E i \in 1..Len(text) : \E j \in (i+1)..Len(text) :
        text[i] = "Final Answer:" /\ text[j] = "Action:"

\* C11 (as claimed): a model response with a Final Answer: label and a later
\* Action: label ends the Task as a final answer; no action runs and no parse
\* failure is recorded.
C11_FinalAnswerPrecedence ==
    (ev.op # "none" /\ FinalThenAction(ev.text)) =>
        /\ ev.op = "final"
        /\ pc = "done" /\ termKind = "final"

\* C12 (as claimed): a Task that wrote COMMIT_EDITMSG and reads it in a later
\* cycle is shown what it last wrote, whatever the other worker threads do
\* in between.
C12_TaskReadsOwnWrite ==
    \A w \in Workers :
        (workers[w].last = "read_commit_editmsg" /\ workers[w].wrote # None) =>
            workers[w].observation \in
                { <<"Current commit message template:\n\n">> \o workers[w].wrote,
                  <<"Error reading COMMIT_EDITMSG: ", "Permission denied">> }

\* the last step was a tool that wrote COMMIT_EDITMSG
Saved == ev.op = "tool" /\ ReportsSaved(observation)

\* C13 (as claimed): after a write of a generated text, whatever the file held
\* before, the file holds exactly that text.
C13_FileEqualsGeneratedText == Saved => editmsg = ev.gen

\* C13 (amended): after a write of a generated text, whatever the file held
\* before (nothing, another text, the same text), the file holds the text
\* with its leading and trailing whitespace removed, and nothing else.
C13_FileEqualsStrippedText ==
    Saved =>
        /\ editmsg = Strip(ev.gen)
        /\ ev.tool \in {"generate_commit_message", "improve_commit_message", "get_git_diff"}
        /\ ev.llm = "ok"

\* C13 witness: the same text, with whitespace around it, is written a second
\* time.
C13_Witness ==
    /\ Saved
    /\ ev.gen = <<" ", "fix", "\n">>
    /\ ev.fileBefore = <<"fix">>
    /\ editmsg = <<"fix">>

C15_FailedCommandReported ==
    ev.op = "tool" =>
        \A i \in 1..Len(ev.procs) :
            /\ ev.procs[i] = "failed" => "fatal" \in Range(observation)
            /\ ev.procs[i] = "timeout" => "Command timed out" \in Range(observation)
            /\ ev.procs[i] = "oserror" => "OSError" \in Range(observation)

\* C16: git_push with require_confirmation asks before the gate is reached:
\* with push outside the allowlist the user is still asked, and after a yes
\* the gate rejects the command and nothing is spawned.
C16_ConfirmBeforeAllowlist ==
    (ev.op = "tool" /\ ev.tool = "git_push" /\ settings.require_confirmation
        /\ "push" \notin settings.allowed_git_commands) =>
        /\ ev.conf \in {"yes", "no"}
        /\ ev.spawned = <<>>
        /\ ev.conf = "yes" => observation = <<"Error: ">> \o UnsafeOperationError("push")
        /\ ev.conf = "no" => observation = <<"Push cancelled by user">>

\* C16 witness: the push is confirmed and then rejected by the gate.
C16_Witness ==
    /\ ev.op = "tool" /\ ev.tool = "git_push" /\ ev.conf = "yes"
    /\ settings.require_confirmation
    /\ "push" \notin settings.allowed_git_commands
    /\ observation = <<"Error: ", "Git command '", "push", "' not allowed">>
    /\ ev.spawned = <<>>

\* C17: generate_commit_message asks for no completion and leaves
\* COMMIT_EDITMSG as it was when it is not in a repository, when the staged
\* diff command is rejected, fails or prints nothing; it leaves the file as
\* it was when its completion fails; the file changes only after a
\* successful completion.
C17_GenerateFrame ==
    (ev.op = "tool" /\ ev.tool = "generate_commit_message") =>
        /\ (~inRepo \/ ev.procs = <<>> \/ ev.procs[1] # "out")
              => (ev.llm = "none" /\ editmsg = ev.fileBefore)
        /\ ev.llm = "failed" => editmsg = ev.fileBefore
        /\ editmsg # ev.fileBefore => ev.llm = "ok"

\* C17 witness: the completion fails and the file still holds what it held.
C17_Witness ==
    /\ ev.op = "tool" /\ ev.tool = "generate_commit_message"
    /\ ev.llm = "failed"
    /\ ev.fileBefore = <<"wip", "\n">>
    /\ editmsg = <<"wip", "\n">>

====
